---- MODULE Spec2Model ----
(***************************************************************************)
(* Model of the seelog dispatcher tree (package dispatchers) and of the    *)
(* synchronous logger that drives it.                                      *)
(*                                                                         *)
(* A dispatcher owns an ordered list of FormattedWriters and an ordered    *)
(* list of child dispatchers.  createDispatcher builds a node out of a     *)
(* list of receivers; Dispatch, Flush and Close walk the tree.  Every call *)
(* a walk makes on a sink, on the error callback or on a child dispatcher  *)
(* is recorded, in order, as an event of the walk's trace.                 *)
(***************************************************************************)
EXTENDS Integers, Sequences, FiniteSets, TLC

\* ---------------------------------------------------------------- bounds
MaxNodes == 3      \* dispatchers ever constructed
MaxSinks == 3      \* sinks ever stored in the tree
MaxRecv  == 3      \* longest receiver list handed to createDispatcher
MaxCalls == 2      \* Dispatch/Flush/Close calls made by the program

\* ---------------------------------------------------------------- values
Nil == 0                                  \* a nil *format.Formatter
TheFormatter == 1                         \* the shared formatter
NilErr == [msg |-> "nil", src |-> 0]      \* a nil error
Err(m, s) == [msg |-> m, src |-> s]

ErrNilFormatter == Err("Formatter can not be nil", 0)
ErrEmptyReceivers == Err("Receivers can not be nil or empty", 0)
ErrUnsupportedReceiver == Err("Method can receive either io.Writer or DispatcherInterface", 0)

Messages == {"hello"}
Levels   == {0, 1}
Contexts == {"ctx"}
\* The error callbacks a caller of Dispatch passes.
Callbacks == {"onError"}

VARIABLES
  heap,       \* the dispatchers constructed so far; a dispatcher is its index
  call,       \* the last call: operation, receiver node and inputs
  result,     \* what the last call returned: a dispatcher pointer, an error
  trace,      \* the events of the last Dispatch/Flush/Close call, in order
  calls,      \* number of Dispatch/Flush/Close calls made so far
  closed,     \* the roots on which a Close call has returned no error
  stack       \* the frames of the call chain of a call that is in progress

vars == <<heap, call, result, trace, calls, closed, stack>>

RECURSIVE addReceivers(_, _)
RECURSIVE dispatchWriters(_, _, _, _, _, _, _)
RECURSIVE Dispatch(_, _, _, _, _, _, _)
RECURSIVE dispatchChildren(_, _, _, _, _, _, _)
RECURSIVE flushWriters(_, _)
RECURSIVE Flush(_, _)
RECURSIVE flushChildren(_, _)
RECURSIVE closeWriters(_, _, _)
RECURSIVE Close(_, _, _)
RECURSIVE closeChildren(_, _, _)
RECURSIVE SumLen(_)
RECURSIVE Subtree(_)
RECURSIVE Depth(_, _)

\* A sink: an io.Writer which may also be a FlusherInterface and an io.Closer.
Sink(id, fl, cl) == [id |-> id, flusher |-> fl, closer |-> cl]

\* FormattedWriter.Writer(): the sink a FormattedWriter is bound to.
Writer(formatWriter) == formatWriter.writer

\* A receiver is described by the dynamic type tests it passes: a
\* *FormattedWriter, a raw io.Writer, a DispatcherInterface, a value that is
\* both an io.Writer and a DispatcherInterface, or a value of another type.
IsFormattedWriter(receiver) == receiver.kind = "FormattedWriter"
IsIoWriter(receiver) == receiver.kind \in {"ioWriter", "ioWriterDispatcher"}
IsDispatcherInterface(receiver) == receiver.kind \in {"Dispatcher", "ioWriterDispatcher"}

\* NewFormattedWriter(ioWriter, formatter): binds a sink to a formatter, or fails.
NewFormattedWriter(receiver, formatter) ==
  IF receiver.wrapErr
    THEN [fw |-> <<>>, err |-> Err("wrap", receiver.sink.id)]
    ELSE [fw |-> <<[writer |-> receiver.sink, formatter |-> formatter]>>, err |-> NilErr]

\* Mutant: a failing receiver loop returns the dispatcher built so far.
FailedKeepsPartial(disp, err) == [disp |-> <<disp>>, err |-> err]

\* The result of the receiver loop when it fails: no dispatcher, the error.
Failed(disp, err) == [disp |-> <<>>, err |-> err]

\* Mutant: an accepted receiver is put at the front of its list.
addReceiverAtFront(disp, receiver) ==
  IF IsFormattedWriter(receiver)
    THEN [next |-> TRUE, err |-> NilErr,
          disp |-> [disp EXCEPT !.writers = <<receiver.fw>> \o @]]
  ELSE IF IsIoWriter(receiver)
    THEN LET w == NewFormattedWriter(receiver, disp.formatter) IN
         IF w.err # NilErr
           THEN [next |-> FALSE, err |-> w.err, disp |-> disp]
           ELSE [next |-> TRUE, err |-> NilErr,
                 disp |-> [disp EXCEPT !.writers = <<w.fw[1]>> \o @]]
  ELSE IF IsDispatcherInterface(receiver)
    THEN [next |-> TRUE, err |-> NilErr,
          disp |-> [disp EXCEPT !.dispatchers = <<receiver.d>> \o @]]
  ELSE [next |-> FALSE, err |-> ErrUnsupportedReceiver, disp |-> disp]

\* Mutant: the DispatcherInterface test is made before the io.Writer test.
addReceiverDispatcherFirst(disp, receiver) ==
  IF IsFormattedWriter(receiver)
    THEN [next |-> TRUE, err |-> NilErr,
          disp |-> [disp EXCEPT !.writers = Append(@, receiver.fw)]]
  ELSE IF IsDispatcherInterface(receiver)
    THEN [next |-> TRUE, err |-> NilErr,
          disp |-> [disp EXCEPT !.dispatchers = Append(@, receiver.d)]]
  ELSE IF IsIoWriter(receiver)
    THEN LET w == NewFormattedWriter(receiver, disp.formatter) IN
         IF w.err # NilErr
           THEN [next |-> FALSE, err |-> w.err, disp |-> disp]
           ELSE [next |-> TRUE, err |-> NilErr,
                 disp |-> [disp EXCEPT !.writers = Append(@, w.fw[1])]]
  ELSE [next |-> FALSE, err |-> ErrUnsupportedReceiver, disp |-> disp]

\* One iteration of the receiver loop of createDispatcher.  next is TRUE
\* when the loop goes on (continue) and FALSE when the function returns.
addReceiver(disp, receiver) ==
  IF IsFormattedWriter(receiver)
    THEN [next |-> TRUE, err |-> NilErr,
          disp |-> [disp EXCEPT !.writers = Append(@, receiver.fw)]]
  ELSE IF IsIoWriter(receiver)
    THEN LET w == NewFormattedWriter(receiver, disp.formatter) IN
         IF w.err # NilErr
           THEN [next |-> FALSE, err |-> w.err, disp |-> disp]
           ELSE [next |-> TRUE, err |-> NilErr,
                 disp |-> [disp EXCEPT !.writers = Append(@, w.fw[1])]]
  ELSE IF IsDispatcherInterface(receiver)
    THEN [next |-> TRUE, err |-> NilErr,
          disp |-> [disp EXCEPT !.dispatchers = Append(@, receiver.d)]]
  ELSE [next |-> FALSE, err |-> ErrUnsupportedReceiver, disp |-> disp]

addReceivers(disp, receivers) ==
  IF receivers = <<>>
    THEN [disp |-> <<disp>>, err |-> NilErr]
    ELSE LET step == addReceiver(disp, Head(receivers)) IN
         IF step.next
           THEN addReceivers(step.disp, Tail(receivers))
           ELSE Failed(step.disp, step.err)

\* createDispatcher(formatter, receivers): a pointer is a sequence of length
\* at most one (<<>> is nil); receivers is a slice that may be nil.
createDispatcher(formatter, receivers) ==
  IF formatter = Nil
    THEN [disp |-> <<>>, err |-> ErrNilFormatter]
  ELSE IF receivers.isNil \/ Len(receivers.elems) = 0
    THEN [disp |-> <<>>, err |-> ErrEmptyReceivers]
  ELSE addReceivers([formatter |-> formatter, writers |-> <<>>, dispatchers |-> <<>>],
                    receivers.elems)

\* ---------------------------------------------------------------- events
\* One call made during a walk: op on target id, made by dispatcher by
\* (0: made by the caller of the root operation).
Ev(op, id, by, message, level, context, err) ==
  [op |-> op, id |-> id, by |-> by, message |-> message, level |-> level,
   context |-> context, err |-> err, errorFunc |-> ""]
\* The event ev of a call that is handed, or is a call of, the callback errorFunc.
Called(ev, errorFunc) == [ev EXCEPT !.errorFunc = errorFunc]
Call(op, id, by) == Ev(op, id, by, "", 0, "", NilErr)

\* FormattedWriter.Write: formats and writes to the sink; its error is an
\* outcome of the sink, drawn per call from the set wfail of failing sinks.
Write(formatWriter, wfail) ==
  IF Writer(formatWriter).id \in wfail
    THEN Err("write", Writer(formatWriter).id) ELSE NilErr

\* io.Closer.Close of a sink: its error is drawn from the set cfail.
closerClose(sink, cfail) ==
  IF sink.id \in cfail THEN Err("close", sink.id) ELSE NilErr

\* Mutant: a writer is written to only at a level above the lowest.
dispatchWriterAboveLowest(d, formatWriter, message, level, context, errorFunc, wfail) ==
  LET err == Write(formatWriter, wfail) IN
  IF level = 0 THEN <<>>
  ELSE <<Ev("Write", Writer(formatWriter).id, d, message, level, context, err)>>
       \o (IF err # NilErr
             THEN <<Called(Ev("errorFunc", Writer(formatWriter).id, d, "", 0, "", err),
                           errorFunc)>>
             ELSE <<>>)

\* Body of the writers loop of Dispatch for one writer.
dispatchWriter(d, formatWriter, message, level, context, errorFunc, wfail) ==
  LET err == Write(formatWriter, wfail) IN
  <<Ev("Write", Writer(formatWriter).id, d, message, level, context, err)>>
  \o (IF err # NilErr
        THEN <<Called(Ev("errorFunc", Writer(formatWriter).id, d, "", 0, "", err),
                       errorFunc)>>
        ELSE <<>>)

\* Mutant: a failing write ends the writers loop.
dispatchWritersStopOnError(d, writers, message, level, context, errorFunc, wfail) ==
  IF writers = <<>> THEN <<>>
  ELSE dispatchWriter(d, Head(writers), message, level, context, errorFunc, wfail)
       \o (IF Write(Head(writers), wfail) # NilErr
             THEN <<>>
             ELSE dispatchWriters(d, Tail(writers), message, level, context, errorFunc, wfail))

dispatchWriters(d, writers, message, level, context, errorFunc, wfail) ==
  IF writers = <<>> THEN <<>>
  ELSE dispatchWriter(d, Head(writers), message, level, context, errorFunc, wfail)
       \o dispatchWriters(d, Tail(writers), message, level, context, errorFunc, wfail)

dispatchChildren(d, dispatchers, message, level, context, errorFunc, wfail) ==
  IF dispatchers = <<>> THEN <<>>
  ELSE Dispatch(Head(dispatchers), d, message, level, context, errorFunc, wfail)
       \o dispatchChildren(d, Tail(dispatchers), message, level, context, errorFunc, wfail)

\* Mutant: the children are dispatched into before the own writers are written.
DispatchChildrenFirst(d, by, message, level, context, errorFunc, wfail) ==
  <<Called(Ev("Dispatch", d, by, message, level, context, NilErr), errorFunc)>>
  \o dispatchChildren(d, heap[d].dispatchers, message, level, context, errorFunc, wfail)
  \o dispatchWriters(d, heap[d].writers, message, level, context, errorFunc, wfail)
  \o <<Call("DispatchRet", d, by)>>

\* dispatcher.Dispatch on node d, called by node by.
Dispatch(d, by, message, level, context, errorFunc, wfail) ==
  <<Called(Ev("Dispatch", d, by, message, level, context, NilErr), errorFunc)>>
  \o dispatchWriters(d, heap[d].writers, message, level, context, errorFunc, wfail)
  \o dispatchChildren(d, heap[d].dispatchers, message, level, context, errorFunc, wfail)
  \o <<Call("DispatchRet", d, by)>>

\* Body of the writers loop of Flush for one writer.
flushWriter(d, formatWriter) ==
  IF Writer(formatWriter).flusher
    THEN <<Call("flush", Writer(formatWriter).id, d)>> ELSE <<>>

\* Mutant: a writer whose sink is not flushable ends the writers loop.
flushWritersStopAtPlain(d, writers) ==
  IF writers = <<>> THEN <<>>
  ELSE IF ~Writer(Head(writers)).flusher THEN <<>>
  ELSE flushWriter(d, Head(writers)) \o flushWriters(d, Tail(writers))

flushWriters(d, writers) ==
  IF writers = <<>> THEN <<>>
  ELSE flushWriter(d, Head(writers)) \o flushWriters(d, Tail(writers))

flushChildren(d, dispatchers) ==
  IF dispatchers = <<>> THEN <<>>
  ELSE Flush(Head(dispatchers), d) \o flushChildren(d, Tail(dispatchers))

\* Mutant: the own writers are flushed before the children.
FlushWritersFirst(d, by) ==
  <<Call("Flush", d, by)>>
  \o flushWriters(d, heap[d].writers)
  \o flushChildren(d, heap[d].dispatchers)
  \o <<Call("FlushRet", d, by)>>

\* dispatcher.Flush on node d, called by node by.
Flush(d, by) ==
  <<Call("Flush", d, by)>>
  \o flushChildren(d, heap[d].dispatchers)
  \o flushWriters(d, heap[d].writers)
  \o <<Call("FlushRet", d, by)>>

\* Mutant: the sink is closed before it is flushed.
closeWriterCloseFirst(d, formatWriter, cfail) ==
  LET fl == IF Writer(formatWriter).flusher
              THEN <<Call("flush", Writer(formatWriter).id, d)>> ELSE <<>>
      err == closerClose(Writer(formatWriter), cfail)
  IN IF Writer(formatWriter).closer
       THEN [ev |-> <<Ev("close", Writer(formatWriter).id, d, "", 0, "", err)>> \o fl,
             err |-> err]
       ELSE [ev |-> fl, err |-> NilErr]

\* Body of the writers loop of Close for one writer: flush if flushable,
\* close if closable; err is the error that makes Close return.
closeWriter(d, formatWriter, cfail) ==
  LET fl == IF Writer(formatWriter).flusher
              THEN <<Call("flush", Writer(formatWriter).id, d)>> ELSE <<>>
      err == closerClose(Writer(formatWriter), cfail)
  IN IF Writer(formatWriter).closer
       THEN [ev |-> fl \o <<Ev("close", Writer(formatWriter).id, d, "", 0, "", err)>>,
             err |-> err]
       ELSE [ev |-> fl, err |-> NilErr]

\* Mutant: a close error does not end the writers loop; the last error is kept.
closeWritersGoOn(d, writers, cfail) ==
  IF writers = <<>> THEN [ev |-> <<>>, err |-> NilErr]
  ELSE LET w == closeWriter(d, Head(writers), cfail)
           rest == closeWriters(d, Tail(writers), cfail)
       IN [ev |-> w.ev \o rest.ev,
           err |-> IF rest.err # NilErr THEN rest.err ELSE w.err]

closeWriters(d, writers, cfail) ==
  IF writers = <<>> THEN [ev |-> <<>>, err |-> NilErr]
  ELSE LET w == closeWriter(d, Head(writers), cfail) IN
       IF w.err # NilErr
         THEN w
         ELSE LET rest == closeWriters(d, Tail(writers), cfail) IN
              [ev |-> w.ev \o rest.ev, err |-> rest.err]

\* Mutant: the child is flushed but its Close is not called.
closeChildFlushOnly(d, child, cfail) ==
  [ev |-> Flush(child, d), err |-> NilErr]

\* Mutant: the child is closed without being flushed first.
closeChildCloseOnly(d, child, cfail) ==
  LET c == Close(child, d, cfail) IN [ev |-> c.ev, err |-> c.err]

\* Body of the children loop of Close for one child: Flush, then Close.
closeChild(d, child, cfail) ==
  LET c == Close(child, d, cfail) IN
  [ev |-> Flush(child, d) \o c.ev, err |-> c.err]

\* Mutant: a child's close error does not end the children loop.
closeChildrenGoOn(d, dispatchers, cfail) ==
  IF dispatchers = <<>> THEN [ev |-> <<>>, err |-> NilErr]
  ELSE LET c == closeChild(d, Head(dispatchers), cfail)
           rest == closeChildren(d, Tail(dispatchers), cfail)
       IN [ev |-> c.ev \o rest.ev,
           err |-> IF c.err # NilErr THEN c.err ELSE rest.err]

closeChildren(d, dispatchers, cfail) ==
  IF dispatchers = <<>> THEN [ev |-> <<>>, err |-> NilErr]
  ELSE LET c == closeChild(d, Head(dispatchers), cfail) IN
       IF c.err # NilErr
         THEN c
         ELSE LET rest == closeChildren(d, Tail(dispatchers), cfail) IN
              [ev |-> c.ev \o rest.ev, err |-> rest.err]

\* Mutant: the own writers are torn down before the children.
CloseWritersFirst(d, by, cfail) ==
  LET cs == closeChildren(d, heap[d].dispatchers, cfail)
      ws == closeWriters(d, heap[d].writers, cfail)
      enter == <<Call("Close", d, by)>>
  IN IF ws.err # NilErr
       THEN [ev |-> enter \o ws.ev \o <<Ev("CloseRet", d, by, "", 0, "", ws.err)>>,
             err |-> ws.err]
       ELSE [ev |-> enter \o ws.ev \o cs.ev \o <<Ev("CloseRet", d, by, "", 0, "", cs.err)>>,
             err |-> cs.err]

\* dispatcher.Close on node d, called by node by.
Close(d, by, cfail) ==
  LET cs == closeChildren(d, heap[d].dispatchers, cfail)
      ws == closeWriters(d, heap[d].writers, cfail)
      enter == <<Call("Close", d, by)>>
  IN IF cs.err # NilErr
       THEN [ev |-> enter \o cs.ev \o <<Ev("CloseRet", d, by, "", 0, "", cs.err)>>,
             err |-> cs.err]
       ELSE [ev |-> enter \o cs.ev \o ws.ev \o <<Ev("CloseRet", d, by, "", 0, "", ws.err)>>,
             err |-> ws.err]

\* ---------------------------------------------------------------- the tree
Nodes == 1..Len(heap)
Range(seq) == {seq[i] : i \in 1..Len(seq)}

\* The sinks of a node's own writers, and the number of sinks stored so far.
OwnSinks(d) == {Writer(heap[d].writers[i]) : i \in 1..Len(heap[d].writers)}
OwnIds(d) == {s.id : s \in OwnSinks(d)}
SumLen(d) == IF d = 0 THEN 0 ELSE Len(heap[d].writers) + SumLen(d - 1)
nSinks == SumLen(Len(heap))

\* The dispatchers no other dispatcher holds as a child.
Owned == UNION {Range(heap[d].dispatchers) : d \in Nodes}
Free == Nodes \ Owned

\* The nodes of the subtree of d (d included); children have smaller indices.
Subtree(d) == {d} \cup UNION {Subtree(c) : c \in Range(heap[d].dispatchers)}
SubtreeIds(d) == UNION {OwnIds(n) : n \in Subtree(d)}
SubtreeSinks(d) == UNION {OwnSinks(n) : n \in Subtree(d)}

\* ---------------------------------------------------------------- inputs
Caps == BOOLEAN \X BOOLEAN
Descr(kind, caps, wrapErr, d) ==
  [kind |-> kind, flusher |-> caps[1], closer |-> caps[2], wrapErr |-> wrapErr, d |-> d]
HasSink(x) == x.kind \in {"FormattedWriter", "ioWriter", "ioWriterDispatcher"}
HasDisp(x) == x.kind \in {"Dispatcher", "ioWriterDispatcher"}

\* What a caller may put at one position of a receiver list.
Descriptors ==
  {Descr("FormattedWriter", c, FALSE, 0) : c \in Caps}
  \cup {Descr("ioWriter", c, FALSE, 0) : c \in Caps}
  \cup {Descr("ioWriter", <<FALSE, FALSE>>, TRUE, 0)}
  \cup {Descr("Dispatcher", <<FALSE, FALSE>>, FALSE, d) : d \in Free}
  \cup {Descr("ioWriterDispatcher", <<TRUE, TRUE>>, FALSE, d) : d \in Free}
  \cup {Descr("other", <<FALSE, FALSE>>, FALSE, 0)}

\* Receiver lists respecting tree ownership (no dispatcher handed over
\* twice) and the bound on the number of sinks.
DescrLists ==
  {l \in UNION {[1..n -> Descriptors] : n \in 0..MaxRecv} :
     /\ \A i, j \in 1..Len(l) : (i < j /\ HasDisp(l[i]) /\ HasDisp(l[j])) => l[i].d # l[j].d
     /\ nSinks + Cardinality({i \in 1..Len(l) : HasSink(l[i])}) <= MaxSinks}

\* The receiver a descriptor stands for; a sink gets the next unused id.
Receiver(l, i) ==
  LET id == IF HasSink(l[i])
              THEN nSinks + Cardinality({j \in 1..i : HasSink(l[j])}) ELSE 0
      sink == Sink(id, l[i].flusher, l[i].closer)
  IN [kind |-> l[i].kind, sink |-> sink, wrapErr |-> l[i].wrapErr, d |-> l[i].d,
      fw |-> [writer |-> sink, formatter |-> TheFormatter]]
Receivers(l) == [i \in 1..Len(l) |-> Receiver(l, i)]

NoCall == [op |-> "none", d |-> 0, message |-> "", level |-> 0, context |-> "",
           errorFunc |-> "", wfail |-> {}, cfail |-> {}, formatter |-> Nil,
           params |-> <<>>, captured |-> NilErr,
           receivers |-> [isNil |-> TRUE, elems |-> <<>>]]

\* What a call returns: Dispatch and Flush return nothing.
NoResult == [disp |-> <<>>, err |-> NilErr]

Init ==
  /\ heap = <<>>
  /\ call = NoCall
  /\ result = NoResult
  /\ trace = <<>>
  /\ calls = 0
  /\ closed = {}
  /\ stack = <<>>

\* The receiver lists a caller may pass: a nil slice or a list of receivers.
NilSlice == [isNil |-> TRUE, elems |-> <<>>]
ReceiverInputs == {NilSlice} \cup {[isNil |-> FALSE, elems |-> Receivers(l)] : l \in DescrLists}

\* createDispatcher(formatter, receivers) returns: a new dispatcher joins the
\* heap only when the call returns one.  recorded is what the call record
\* keeps of the receiver list.
CreateReturn(formatter, receivers, recorded) ==
  LET res == createDispatcher(formatter, receivers) IN
  /\ heap' = IF res.disp # <<>> THEN Append(heap, res.disp[1]) ELSE heap
  /\ result' = [disp |-> IF res.disp # <<>> THEN <<Len(heap) + 1>> ELSE <<>>,
                err |-> res.err]
  /\ call' = [NoCall EXCEPT !.op = "createDispatcher", !.formatter = formatter,
                            !.receivers = recorded]
  /\ trace' = <<>>
  /\ UNCHANGED <<calls, closed, stack>>

\* A call of createDispatcher(formatter, receivers) by the builder, which
\* builds the tree bottom-up before the first Dispatch, Flush or Close.
CreateDispatcher ==
  /\ Len(heap) < MaxNodes
  /\ calls = 0
  /\ \E formatter \in {Nil, TheFormatter}, receivers \in ReceiverInputs :
       CreateReturn(formatter, receivers, NilSlice)

\* Mutant: Dispatch does nothing on a root that has been closed.
DoDispatchUnlessClosed ==
  /\ calls < MaxCalls
  /\ \E d \in Free, message \in Messages, level \in Levels, context \in Contexts,
        errorFunc \in Callbacks :
     \E wfail \in SUBSET SubtreeIds(d) :
       /\ trace' = IF d \in closed THEN <<>>
                   ELSE Dispatch(d, 0, message, level, context, errorFunc, wfail)
       /\ call' = [NoCall EXCEPT !.op = "Dispatch", !.d = d, !.message = message,
                     !.level = level, !.context = context,
                     !.errorFunc = errorFunc, !.wfail = wfail]
  /\ result' = NoResult
  /\ calls' = calls + 1
  /\ UNCHANGED <<heap, closed, stack>>

\* A call of Dispatch on a root (a dispatcher no other dispatcher holds),
\* with the caller's error callback; wfail is the set of sinks whose write
\* fails during this call.
DoDispatch ==
  /\ calls < MaxCalls
  /\ \E d \in Free, message \in Messages, level \in Levels, context \in Contexts,
        errorFunc \in Callbacks :
     \E wfail \in SUBSET SubtreeIds(d) :
       /\ trace' = Dispatch(d, 0, message, level, context, errorFunc, wfail)
       /\ call' = [NoCall EXCEPT !.op = "Dispatch", !.d = d, !.message = message,
                     !.level = level, !.context = context,
                     !.errorFunc = errorFunc, !.wfail = wfail]
  /\ result' = NoResult
  /\ calls' = calls + 1
  /\ UNCHANGED <<heap, closed, stack>>

\* A call of Flush on a root.
DoFlush ==
  /\ calls < MaxCalls
  /\ \E d \in Free :
       /\ trace' = Flush(d, 0)
       /\ call' = [NoCall EXCEPT !.op = "Flush", !.d = d]
  /\ result' = NoResult
  /\ calls' = calls + 1
  /\ UNCHANGED <<heap, closed, stack>>

\* Mutant: a Close that returns no error releases the node's two lists.
DoCloseReleases ==
  /\ calls < MaxCalls
  /\ \E d \in Free :
     \E cfail \in SUBSET {s.id : s \in {x \in SubtreeSinks(d) : x.closer}} :
       LET res == Close(d, 0, cfail) IN
       /\ trace' = res.ev
       /\ result' = [disp |-> <<>>, err |-> res.err]
       /\ call' = [NoCall EXCEPT !.op = "Close", !.d = d, !.cfail = cfail]
       /\ heap' = IF res.err = NilErr
                    THEN [heap EXCEPT ![d].writers = <<>>, ![d].dispatchers = <<>>]
                    ELSE heap
       /\ closed' = IF res.err = NilErr THEN closed \cup {d} ELSE closed
  /\ calls' = calls + 1
  /\ UNCHANGED stack

\* A call of Close on a root; cfail is the set of closable sinks whose close
\* fails during this call.
DoClose ==
  /\ calls < MaxCalls
  /\ \E d \in Free :
     \E cfail \in SUBSET {s.id : s \in {x \in SubtreeSinks(d) : x.closer}} :
       LET res == Close(d, 0, cfail) IN
       /\ trace' = res.ev
       /\ result' = [disp |-> <<>>, err |-> res.err]
       /\ call' = [NoCall EXCEPT !.op = "Close", !.d = d, !.cfail = cfail]
       /\ closed' = IF res.err = NilErr THEN closed \cup {d} ELSE closed
  /\ calls' = calls + 1
  /\ UNCHANGED <<heap, stack>>

Next == CreateDispatcher \/ DoDispatch \/ DoFlush \/ DoClose

Spec == Init /\ [][Next]_vars

\* ---------------------------------------------------------------- createDispatcher alone
\* createDispatcher as a function of its arguments: the arguments are drawn
\* in the initial state, on a heap that holds zero, one or two dispatchers
\* built earlier, and the one action is the call returning.
LeafDispatcher(id) ==
  [formatter |-> TheFormatter,
   writers |-> <<[writer |-> Sink(id, TRUE, TRUE), formatter |-> TheFormatter]>>,
   dispatchers |-> <<>>]
BaseHeaps == {<<>>, <<LeafDispatcher(1)>>, <<LeafDispatcher(1), LeafDispatcher(2)>>}

InitCreate ==
  /\ heap \in BaseHeaps
  /\ call \in {[NoCall EXCEPT !.op = "createDispatcher called", !.formatter = formatter,
                              !.receivers = receivers] :
                 formatter \in {Nil, TheFormatter}, receivers \in ReceiverInputs}
  /\ result = NoResult
  /\ trace = <<>>
  /\ calls = 0
  /\ closed = {}
  /\ stack = <<>>

CreateDispatcherReturns ==
  /\ call.op = "createDispatcher called"
  /\ CreateReturn(call.formatter, call.receivers, call.receivers)

NextCreate == CreateDispatcherReturns

SpecCreate == InitCreate /\ [][NextCreate]_vars

\* ---------------------------------------------------------------- SyncLogger
\* The parameter lists of a log call, and the outcomes of SpecificContext:
\* a caller context with no error, or no context with an error.
Params == {<<>>, <<"p">>}
ErrNoContext == Err("context", 0)
Captures == {[context |-> c, err |-> NilErr] : c \in Contexts}
              \cup {[context |-> "", err |-> ErrNoContext]}

\* An event of a log call: a call made by SyncLogger.log, with its arguments.
LogEv(op, level, format, params, context, err) ==
  [op |-> op, id |-> 0, by |-> 0, message |-> format, level |-> level,
   context |-> context, err |-> err, errorFunc |-> "", params |-> params]

\* Mutant: the return after reportInternalError is missing.
logWithoutReturn(level, format, params, captured) ==
  <<LogEv("SpecificContext", 0, "", <<>>, captured.context, captured.err)>>
  \o (IF captured.err # NilErr
        THEN <<LogEv("reportInternalError", 0, "", <<>>, "", captured.err)>>
        ELSE <<>>)
  \o <<LogEv("processLogMsg", level, format, params, captured.context, NilErr),
        LogEv("processLogMsgRet", 0, "", <<>>, "", NilErr)>>
  \o <<LogEv("logRet", 0, "", <<>>, "", NilErr)>>

\* SyncLogger.log: the calls it makes, in order, up to its return; captured
\* is what SpecificContext(3) returns.
log(level, format, params, captured) ==
  <<LogEv("SpecificContext", 0, "", <<>>, captured.context, captured.err)>>
  \o (IF captured.err # NilErr
        THEN <<LogEv("reportInternalError", 0, "", <<>>, "", captured.err)>>
        ELSE <<LogEv("processLogMsg", level, format, params, captured.context, NilErr),
               LogEv("processLogMsgRet", 0, "", <<>>, "", NilErr)>>)
  \o <<LogEv("logRet", 0, "", <<>>, "", NilErr)>>

\* A call of SyncLogger.log on a logger whose root dispatcher is d.
SyncLoggerLog ==
  /\ calls < MaxCalls
  /\ \E d \in Free, level \in Levels, format \in Messages, params \in Params,
        captured \in Captures :
       /\ trace' = log(level, format, params, captured)
       /\ call' = [NoCall EXCEPT !.op = "SyncLogger.log", !.d = d, !.level = level,
                     !.message = format, !.params = params,
                     !.context = captured.context, !.captured = captured.err]
  /\ result' = NoResult
  /\ calls' = calls + 1
  /\ UNCHANGED <<heap, closed, stack>>

\* Mutant: SyncLogger.Close returns the error of the root dispatcher's Close.
SyncLoggerCloseReturnsError ==
  /\ calls < MaxCalls
  /\ \E d \in Free :
     \E cfail \in SUBSET {s.id : s \in {x \in SubtreeSinks(d) : x.closer}} :
       LET res == Close(d, 0, cfail) IN
       /\ trace' = res.ev
       /\ result' = [disp |-> <<>>, err |-> res.err]
       /\ call' = [NoCall EXCEPT !.op = "SyncLogger.Close", !.d = d, !.cfail = cfail]
       /\ closed' = IF res.err = NilErr THEN closed \cup {d} ELSE closed
  /\ calls' = calls + 1
  /\ UNCHANGED <<heap, stack>>

\* A call of SyncLogger.Close on a logger whose root dispatcher is d: the
\* root's Close is called and what it returns is dropped.
SyncLoggerClose ==
  /\ calls < MaxCalls
  /\ \E d \in Free :
     \E cfail \in SUBSET {s.id : s \in {x \in SubtreeSinks(d) : x.closer}} :
       LET res == Close(d, 0, cfail) IN
       /\ trace' = res.ev
       /\ call' = [NoCall EXCEPT !.op = "SyncLogger.Close", !.d = d, !.cfail = cfail]
       /\ closed' = IF res.err = NilErr THEN closed \cup {d} ELSE closed
  /\ result' = NoResult
  /\ calls' = calls + 1
  /\ UNCHANGED <<heap, stack>>

\* A call of SyncLogger.Flush on a logger whose root dispatcher is d.
SyncLoggerFlush ==
  /\ calls < MaxCalls
  /\ \E d \in Free :
       /\ trace' = Flush(d, 0)
       /\ call' = [NoCall EXCEPT !.op = "SyncLogger.Flush", !.d = d]
  /\ result' = NoResult
  /\ calls' = calls + 1
  /\ UNCHANGED <<heap, closed, stack>>

NextLogger == CreateDispatcher \/ SyncLoggerLog \/ SyncLoggerClose \/ SyncLoggerFlush

SpecLogger == Init /\ [][NextLogger]_vars

\* ---------------------------------------------------------------- the call chain
\* Dispatch, Flush and Close as the steps of one goroutine.  A frame is one
\* activation of one of the three methods on node d, called by node by (0:
\* by the caller of the root).  k is the position of its two loops taken
\* together, sub the next of the two calls the children loop of Close makes
\* on a child, err the error the frame returns.
Frame(op, d, by) ==
  [op |-> op, d |-> d, by |-> by, k |-> 1, sub |-> "Flush", err |-> NilErr]
Top == stack[Len(stack)]
nWriters(f) == Len(heap[f.d].writers)
nChildren(f) == Len(heap[f.d].dispatchers)
\* Dispatch loops over the writers first, Flush and Close over the children.
AtWriter(f) ==
  /\ f.err = NilErr
  /\ IF f.op = "Dispatch" THEN f.k <= nWriters(f)
     ELSE nChildren(f) < f.k /\ f.k <= nChildren(f) + nWriters(f)
AtChild(f) ==
  /\ f.err = NilErr
  /\ IF f.op = "Dispatch"
       THEN nWriters(f) < f.k /\ f.k <= nWriters(f) + nChildren(f)
       ELSE f.k <= nChildren(f)
Returning(f) == f.err # NilErr \/ f.k > nWriters(f) + nChildren(f)
TheWriter(f) ==
  heap[f.d].writers[IF f.op = "Dispatch" THEN f.k ELSE f.k - nChildren(f)]
TheChild(f) ==
  heap[f.d].dispatchers[IF f.op = "Dispatch" THEN f.k - nWriters(f) ELSE f.k]

\* The events of entering and of leaving an activation; c is the root call.
EnterEv(op, d, by, c) ==
  IF op = "Dispatch"
    THEN Called(Ev("Dispatch", d, by, c.message, c.level, c.context, NilErr),
                c.errorFunc)
    ELSE Call(op, d, by)
ReturnEv(f) ==
  IF f.op = "Close" THEN Ev("CloseRet", f.d, f.by, "", 0, "", f.err)
  ELSE IF f.op = "Flush" THEN Call("FlushRet", f.d, f.by)
  ELSE Call("DispatchRet", f.d, f.by)

\* The root call is made: its inputs are fixed and its frame is pushed.
Called0(c) ==
  /\ stack = <<>>
  /\ calls = 0
  /\ call' = c
  /\ stack' = <<Frame(c.op, c.d, 0)>>
  /\ trace' = <<EnterEv(c.op, c.d, 0, c)>>
  /\ result' = NoResult
  /\ UNCHANGED <<heap, calls, closed>>

DispatchCalled ==
  \E d \in Free, message \in Messages, level \in Levels, context \in Contexts,
     errorFunc \in Callbacks :
  \E wfail \in SUBSET SubtreeIds(d) :
    Called0([NoCall EXCEPT !.op = "Dispatch", !.d = d, !.message = message,
               !.level = level, !.context = context,
               !.errorFunc = errorFunc, !.wfail = wfail])

FlushCalled ==
  \E d \in Free : Called0([NoCall EXCEPT !.op = "Flush", !.d = d])

CloseCalled ==
  \E d \in Free :
  \E cfail \in SUBSET {s.id : s \in {x \in SubtreeSinks(d) : x.closer}} :
    Called0([NoCall EXCEPT !.op = "Close", !.d = d, !.cfail = cfail])

\* One iteration of a writers loop.
StepWriter ==
  /\ stack # <<>>
  /\ AtWriter(Top)
  /\ LET f == Top
         out == IF f.op = "Dispatch"
                  THEN [ev |-> dispatchWriter(f.d, TheWriter(f), call.message,
                                  call.level, call.context, call.errorFunc, call.wfail),
                        err |-> NilErr]
                ELSE IF f.op = "Flush"
                  THEN [ev |-> flushWriter(f.d, TheWriter(f)), err |-> NilErr]
                ELSE closeWriter(f.d, TheWriter(f), call.cfail)
     IN /\ trace' = trace \o out.ev
        /\ stack' = [stack EXCEPT ![Len(stack)] =
                        [f EXCEPT !.k = @ + 1, !.err = out.err]]
  /\ UNCHANGED <<heap, call, result, calls, closed>>

\* Mutant: every method takes one lock that is not reentrant, so that no
\* call is made on a child while a call is in progress.
StepChildLocked ==
  /\ stack # <<>>
  /\ AtChild(Top)
  /\ LET locked == stack # <<>> IN ~locked
  /\ LET f == Top
         op == IF f.op = "Close" THEN f.sub ELSE f.op
         after == IF f.op = "Close" /\ f.sub = "Flush"
                    THEN [f EXCEPT !.sub = "Close"]
                    ELSE [f EXCEPT !.k = @ + 1, !.sub = "Flush"]
     IN /\ stack' = Append([stack EXCEPT ![Len(stack)] = after],
                           Frame(op, TheChild(f), f.d))
        /\ trace' = Append(trace, EnterEv(op, TheChild(f), f.d, call))
  /\ UNCHANGED <<heap, call, result, calls, closed>>

\* A call on a child: Dispatch and Flush call the same method on it, Close
\* calls its Flush and then its Close.
StepChild ==
  /\ stack # <<>>
  /\ AtChild(Top)
  /\ LET f == Top
         op == IF f.op = "Close" THEN f.sub ELSE f.op
         after == IF f.op = "Close" /\ f.sub = "Flush"
                    THEN [f EXCEPT !.sub = "Close"]
                    ELSE [f EXCEPT !.k = @ + 1, !.sub = "Flush"]
     IN /\ stack' = Append([stack EXCEPT ![Len(stack)] = after],
                           Frame(op, TheChild(f), f.d))
        /\ trace' = Append(trace, EnterEv(op, TheChild(f), f.d, call))
  /\ UNCHANGED <<heap, call, result, calls, closed>>

\* A return: to the calling frame, which a close error of the child's Close
\* makes return too, or to the caller of the root.
StepReturn ==
  /\ stack # <<>>
  /\ Returning(Top)
  /\ LET f == Top
         rest == SubSeq(stack, 1, Len(stack) - 1)
     IN /\ trace' = Append(trace, ReturnEv(f))
        /\ IF rest = <<>>
             THEN /\ stack' = <<>>
                  /\ result' = [disp |-> <<>>, err |-> f.err]
                  /\ calls' = calls + 1
                  /\ closed' = IF f.op = "Close" /\ f.err = NilErr
                                 THEN closed \cup {f.d} ELSE closed
             ELSE /\ stack' = [rest EXCEPT ![Len(rest)].err =
                                  IF f.op = "Close" THEN f.err ELSE @]
                  /\ UNCHANGED <<result, calls, closed>>
  /\ UNCHANGED <<heap, call>>

\* The trees the call chain is run on: a chain of three nodes, a root with
\* two children, and a root with two writers and one child, each sink with
\* every combination of capabilities.
WalkNode(sinks, dispatchers) ==
  [formatter |-> TheFormatter,
   writers |-> [i \in 1..Len(sinks) |->
                  [writer |-> sinks[i], formatter |-> TheFormatter]],
   dispatchers |-> dispatchers]
WalkHeaps ==
  UNION {
    LET s1 == Sink(1, c[1][1], c[1][2])
        s2 == Sink(2, c[2][1], c[2][2])
        s3 == Sink(3, c[3][1], c[3][2])
    IN {<<WalkNode(<<s1>>, <<>>), WalkNode(<<s2>>, <<1>>), WalkNode(<<s3>>, <<2>>)>>,
        <<WalkNode(<<s1>>, <<>>), WalkNode(<<s2>>, <<>>), WalkNode(<<s3>>, <<1, 2>>)>>,
        <<WalkNode(<<s1>>, <<>>), WalkNode(<<s2, s3>>, <<1>>)>>}
    : c \in [1..3 -> Caps]}

InitWalk ==
  /\ heap \in WalkHeaps
  /\ call = NoCall
  /\ result = NoResult
  /\ trace = <<>>
  /\ calls = 0
  /\ closed = {}
  /\ stack = <<>>

Step == StepWriter \/ StepChild \/ StepReturn

NextWalk ==
  DispatchCalled \/ FlushCalled \/ CloseCalled \/ StepWriter \/ StepChild \/ StepReturn

\* One goroutine runs the call chain and every sink operation returns, so a
\* step that can be taken is taken.
SpecWalk == InitWalk /\ [][NextWalk]_vars /\ WF_vars(Step)

\* ---------------------------------------------------------------- reading a trace
Idx == 1..Len(trace)
\* The positions of the calls op on target id, and of those made by node by.
At(op, id) == {i \in Idx : trace[i].op = op /\ trace[i].id = id}
AtBy(op, id, by) == {i \in At(op, id) : trace[i].by = by}
Before(A, B) == \A a \in A, b \in B : a < b
WriterId(d, i) == Writer(heap[d].writers[i]).id
Child(d, k) == heap[d].dispatchers[k]
DispatchRoot == call.d

\* ---------------------------------------------------------------- claims

\* C1: delivery isolation.  One Dispatch call on a root invokes Write exactly
\* once on every writer of the whole tree, whatever subset of the writers
\* fails, and the error callback exactly once per failing writer, with that
\* writer's error, and never for a writer that succeeds; it enters every
\* descendant dispatcher exactly once.  This holds of every Dispatch call,
\* the first as well as a later one.
C1_DeliveryIsolation ==
  call.op = "Dispatch" =>
    /\ \A s \in SubtreeIds(call.d) :
         /\ Cardinality(At("Write", s)) = 1
         /\ \A i \in At("Write", s) : (trace[i].err # NilErr) <=> (s \in call.wfail)
         /\ Cardinality(At("errorFunc", s)) = IF s \in call.wfail THEN 1 ELSE 0
         /\ \A i \in At("errorFunc", s) : trace[i].err = Err("write", s)
    /\ \A i \in Idx : trace[i].op \in {"Write", "errorFunc"} => trace[i].id \in SubtreeIds(call.d)
    /\ Cardinality({i \in Idx : trace[i].op = "errorFunc"}) = Cardinality(call.wfail)
    /\ \A n \in Subtree(call.d) : Cardinality(At("Dispatch", n)) = 1
    /\ \A i \in Idx : trace[i].op = "Dispatch" => trace[i].id \in Subtree(call.d)

\* C1 witness: a second call, a Dispatch in which a writer fails and both a
\* later writer of the same node and a writer of a child node succeed.
C1_Witness ==
  /\ call.op = "Dispatch"
  /\ calls = 2
  /\ \E i, j, k \in Idx :
       /\ i < j /\ j < k
       /\ trace[i].op = "Write" /\ trace[i].err # NilErr
       /\ trace[j].op = "Write" /\ trace[j].err = NilErr /\ trace[j].by = trace[i].by
       /\ trace[k].op = "Write" /\ trace[k].err = NilErr /\ trace[k].by # trace[i].by

\* C2: dispatch order.  Within one Dispatch call every node writes its own
\* writers in registration order, all of them before it enters any child; it
\* enters its children in registration order, and everything done in a
\* child's subtree lies between the entry into that child and its return, the
\* return preceding the entry into the next child.
C2_DispatchOrder ==
  call.op = "Dispatch" =>
    \A n \in Subtree(call.d) :
      LET nw == Len(heap[n].writers)
          nc == Len(heap[n].dispatchers)
      IN /\ \A i \in 1..nw : AtBy("Write", WriterId(n, i), n) # {}
         /\ \A k \in 1..nc : AtBy("Dispatch", Child(n, k), n) # {}
                             /\ AtBy("DispatchRet", Child(n, k), n) # {}
         /\ \A i, j \in 1..nw :
              i < j => Before(At("Write", WriterId(n, i)) \cup At("errorFunc", WriterId(n, i)),
                              At("Write", WriterId(n, j)))
         /\ \A i \in 1..nw, k \in 1..nc :
              Before(At("Write", WriterId(n, i)) \cup At("errorFunc", WriterId(n, i)),
                     At("Dispatch", Child(n, k)))
         /\ \A k, l \in 1..nc :
              k < l => Before(At("DispatchRet", Child(n, k)), At("Dispatch", Child(n, l)))
         /\ \A k \in 1..nc :
              LET inside == {i \in Idx : trace[i].by \in Subtree(Child(n, k))} IN
              /\ Before(At("Dispatch", Child(n, k)), inside)
              /\ Before(inside, At("DispatchRet", Child(n, k)))

\* C2 witness: a Dispatch on a node with two writers [A,B] and a child [C]
\* that has a writer of its own.
C2_Witness ==
  /\ call.op = "Dispatch"
  /\ Len(heap[call.d].writers) = 2
  /\ Len(heap[call.d].dispatchers) = 1
  /\ Len(heap[Child(call.d, 1)].writers) = 1
  /\ Len(trace) >= 5

\* ---------------------------------------------------------------- reading a Close trace
\* The events made while Close of node n is running (n's Close call), and
\* among them the flushes and closes n makes on its own writers' sinks and
\* the calls n makes on its children.
Window(n) == {i \in Idx : \E a \in At("Close", n), b \in At("CloseRet", n) : a < i /\ i < b}
Visited(n) == At("Close", n) # {}
OwnInClose(n) == {i \in Window(n) : trace[i].by = n /\ trace[i].op \in {"flush", "close"}}
OnSinkInClose(n, s) == {i \in OwnInClose(n) : trace[i].id = s}
OnChildInClose(n, c) ==
  {i \in Window(n) : trace[i].by = n /\ trace[i].id = c
                     /\ trace[i].op \in {"Flush", "FlushRet", "Close", "CloseRet"}}
InChild(n, c, op) == {i \in OnChildInClose(n, c) : trace[i].op = op}
SinkOf(id) == CHOOSE s \in SubtreeSinks(call.d) : s.id = id

\* C3: close order.  Within the Close call of every node the children are
\* processed in registration order, each one flushed, then closed, its whole
\* subtree torn down before the next child is touched; the node's own
\* writers are processed only after the Close of every child has returned
\* without error, in registration order, each sink flushed (if flushable)
\* before it is closed (if closable).
C3_CloseOrder ==
  call.op = "Close" =>
    \A n \in {m \in Subtree(call.d) : Visited(m)} :
      LET nw == Len(heap[n].writers)
          nc == Len(heap[n].dispatchers)
      IN /\ \A k \in 1..nc :
              LET c == Child(n, k) IN
              OnChildInClose(n, c) # {} =>
                /\ Cardinality(InChild(n, c, "Flush")) = 1
                /\ Cardinality(InChild(n, c, "Close")) = 1
                /\ Before(InChild(n, c, "Flush"), InChild(n, c, "FlushRet"))
                /\ Before(InChild(n, c, "FlushRet"), InChild(n, c, "Close"))
                /\ Before(InChild(n, c, "Close"), InChild(n, c, "CloseRet"))
                /\ LET inside == {i \in Window(n) : trace[i].by \in Subtree(c)} IN
                   /\ Before(InChild(n, c, "Flush"), inside)
                   /\ Before(inside, InChild(n, c, "CloseRet"))
         /\ \A k, l \in 1..nc :
              (k < l /\ OnChildInClose(n, Child(n, l)) # {}) =>
                /\ InChild(n, Child(n, k), "CloseRet") # {}
                /\ Before(InChild(n, Child(n, k), "CloseRet"), OnChildInClose(n, Child(n, l)))
         /\ OwnInClose(n) # {} =>
              \A k \in 1..nc :
                /\ InChild(n, Child(n, k), "CloseRet") # {}
                /\ \A i \in InChild(n, Child(n, k), "CloseRet") : trace[i].err = NilErr
                /\ Before(InChild(n, Child(n, k), "CloseRet"), OwnInClose(n))
         /\ \A i, j \in 1..nw :
              i < j => Before(OnSinkInClose(n, WriterId(n, i)), OnSinkInClose(n, WriterId(n, j)))
         /\ \A i \in 1..nw :
              Before({x \in OnSinkInClose(n, WriterId(n, i)) : trace[x].op = "flush"},
                     {x \in OnSinkInClose(n, WriterId(n, i)) : trace[x].op = "close"})
         /\ (\A b \in At("CloseRet", n) : trace[b].err = NilErr) =>
              \A i \in 1..nw :
                LET s == Writer(heap[n].writers[i]) IN
                /\ Cardinality({x \in OnSinkInClose(n, s.id) : trace[x].op = "flush"})
                     = IF s.flusher THEN 1 ELSE 0
                /\ Cardinality({x \in OnSinkInClose(n, s.id) : trace[x].op = "close"})
                     = IF s.closer THEN 1 ELSE 0

\* C3 witness: a Close without error on a node with writers [A,B] and a
\* child [C], where A and C's writer are both flushable and closable.
C3_Witness ==
  /\ call.op = "Close"
  /\ result.err = NilErr
  /\ Len(heap[call.d].writers) = 2
  /\ Len(heap[call.d].dispatchers) = 1
  /\ Len(heap[Child(call.d, 1)].writers) = 1
  /\ Writer(heap[call.d].writers[1]).flusher /\ Writer(heap[call.d].writers[1]).closer
  /\ Writer(heap[Child(call.d, 1)].writers[1]).flusher
  /\ Writer(heap[Child(call.d, 1)].writers[1]).closer

\* C4: fail-fast close on a child error.  If, within the Close call of a
\* node, the Close of a child returns an error, the node's Close returns that
\* same error as its very next step: within that Close call no child
\* registered after the failing one is flushed or closed and no sink of the
\* node's own writers is flushed or closed.  The error is what every
\* ancestor's Close, and the root Close call, returns, and after it nothing
\* in the whole tree is flushed or closed any more: the rest of the root
\* call consists of the ancestors returning that error.
C4_FailFastChild ==
  call.op = "Close" =>
    /\ \A n \in {m \in Subtree(call.d) : Visited(m)} :
         \A k \in 1..Len(heap[n].dispatchers) :
           \A i \in InChild(n, Child(n, k), "CloseRet") :
             trace[i].err # NilErr =>
               /\ i + 1 \in At("CloseRet", n)
               /\ trace[i + 1].err = trace[i].err
               /\ \A l \in 1..Len(heap[n].dispatchers) :
                    k < l => OnChildInClose(n, Child(n, l)) = {}
               /\ OwnInClose(n) = {}
    /\ \A i \in Idx :
         (trace[i].op = "CloseRet" /\ trace[i].err # NilErr) =>
           /\ result.err = trace[i].err
           /\ \A j \in Idx : i < j => (trace[j].op = "CloseRet" /\ trace[j].err = trace[i].err)

\* C4 witness: the Close of the first of two children fails, on a node that
\* has a writer of its own with a flushable and closable sink.
C4_Witness ==
  /\ call.op = "Close"
  /\ Len(heap[call.d].dispatchers) = 2
  /\ Len(heap[call.d].writers) = 1
  /\ Writer(heap[call.d].writers[1]).flusher /\ Writer(heap[call.d].writers[1]).closer
  /\ \E i \in At("CloseRet", Child(call.d, 1)) : trace[i].err # NilErr
  /\ result.err # NilErr

\* C5: fail-fast close on a writer error.  If, within the Close call of a
\* node, closing the sink of an own writer returns an error, the node's Close
\* returns that error as its very next step: within that Close call the sinks
\* of the writers registered after it are neither flushed nor closed, and
\* after it the root call only returns that error through the ancestors.
\* Nothing is closed twice within the root Close call (no retry), and the
\* root Close returns no error exactly when no close of a sink returned one.
C5_FailFastWriter ==
  call.op = "Close" =>
    /\ \A n \in {m \in Subtree(call.d) : Visited(m)} :
         \A j \in 1..Len(heap[n].writers) :
           \A i \in OnSinkInClose(n, WriterId(n, j)) :
             (trace[i].op = "close" /\ trace[i].err # NilErr) =>
               /\ i + 1 \in At("CloseRet", n)
               /\ trace[i + 1].err = trace[i].err
               /\ \A l \in 1..Len(heap[n].writers) :
                    j < l => OnSinkInClose(n, WriterId(n, l)) = {}
    /\ \A i \in Idx :
         (trace[i].op = "close" /\ trace[i].err # NilErr) =>
           \A j \in Idx : i < j => (trace[j].op = "CloseRet" /\ trace[j].err = trace[i].err)
    /\ \A s \in SubtreeIds(call.d) : Cardinality(At("close", s)) <= 1
    /\ \A n \in Subtree(call.d) : Cardinality(At("Close", n)) <= 1
    /\ (result.err = NilErr) <=> (\A i \in Idx : trace[i].op = "close" => trace[i].err = NilErr)

\* C5 witness: the close of the first own writer's sink fails after a child
\* was closed, and a second own writer with a flushable, closable sink exists.
C5_Witness ==
  /\ call.op = "Close"
  /\ Len(heap[call.d].dispatchers) = 1
  /\ Len(heap[call.d].writers) = 2
  /\ Writer(heap[call.d].writers[2]).flusher /\ Writer(heap[call.d].writers[2]).closer
  /\ \E i \in At("close", WriterId(call.d, 1)) : trace[i].err # NilErr
  /\ \E i \in At("close", WriterId(Child(call.d, 1), 1)) : trace[i].err = NilErr
  /\ result.err = Err("close", WriterId(call.d, 1))

\* C6: flush before close.  In every Close call on a root, with or without
\* an error, every close of a flushable sink is preceded by a flush of that
\* sink in the same call, and no flush or write of a sink follows its close.
C6_FlushBeforeClose ==
  call.op = "Close" =>
    \A i \in Idx :
      trace[i].op = "close" =>
        /\ SinkOf(trace[i].id).closer
        /\ SinkOf(trace[i].id).flusher => \E j \in At("flush", trace[i].id) : j < i
        /\ \A j \in Idx :
             i < j => ~(trace[j].id = trace[i].id /\ trace[j].op \in {"flush", "Write", "close"})

\* C6 witness: a Close call that ends with an error after it closed, without
\* error, a flushable sink of a child node.
C6_Witness ==
  /\ call.op = "Close"
  /\ result.err # NilErr
  /\ \E i \in Idx :
       /\ trace[i].op = "close" /\ trace[i].err = NilErr
       /\ trace[i].by # call.d
       /\ SinkOf(trace[i].id).flusher

\* C7: teardown exactly once.  A Close call on a root that returns no error
\* calls Close exactly once on every dispatcher of the subtree, closes every
\* closable sink of the subtree exactly once and closes no sink that is not
\* closable.
C7_TeardownOnce ==
  (call.op = "Close" /\ result.err = NilErr) =>
    /\ \A n \in Subtree(call.d) : Cardinality(At("Close", n)) = 1
    /\ \A s \in SubtreeSinks(call.d) :
         Cardinality(At("close", s.id)) = IF s.closer THEN 1 ELSE 0
    /\ \A i \in Idx : trace[i].op = "close" => trace[i].id \in SubtreeIds(call.d)
    /\ \A i \in Idx : trace[i].op = "Close" => trace[i].id \in Subtree(call.d)

\* C7 witness: a Close without error on a tree three levels deep that holds
\* a closable sink and a sink that is not closable.
C7_Witness ==
  /\ call.op = "Close"
  /\ result.err = NilErr
  /\ \E c \in Range(heap[call.d].dispatchers) : heap[c].dispatchers # <<>>
  /\ \E s, t \in SubtreeSinks(call.d) : s.closer /\ ~t.closer

\* C8: flush order.  Within one Flush call every node flushes its children
\* first, in registration order, each child's whole subtree before the next
\* child, and only then the sinks of its own writers, in registration order.
C8_FlushOrder ==
  call.op = "Flush" =>
    \A n \in Subtree(call.d) :
      LET nw == Len(heap[n].writers)
          nc == Len(heap[n].dispatchers)
      IN /\ \A k \in 1..nc : AtBy("Flush", Child(n, k), n) # {}
                             /\ AtBy("FlushRet", Child(n, k), n) # {}
         /\ \A k, l \in 1..nc :
              k < l => Before(At("FlushRet", Child(n, k)), At("Flush", Child(n, l)))
         /\ \A k \in 1..nc :
              LET inside == {i \in Idx : trace[i].by \in Subtree(Child(n, k))} IN
              /\ Before(At("Flush", Child(n, k)), inside)
              /\ Before(inside, At("FlushRet", Child(n, k)))
         /\ \A k \in 1..nc, i \in 1..nw :
              Before(At("FlushRet", Child(n, k)), At("flush", WriterId(n, i)))
         /\ \A i, j \in 1..nw :
              i < j => Before(At("flush", WriterId(n, i)), At("flush", WriterId(n, j)))

\* C8 witness: a Flush on a node with two flushable writers [A,B] and a child
\* [C] that has a flushable writer.
C8_Witness ==
  /\ call.op = "Flush"
  /\ Len(heap[call.d].writers) = 2
  /\ Len(heap[call.d].dispatchers) = 1
  /\ \A s \in SubtreeSinks(call.d) : s.flusher
  /\ Cardinality(SubtreeSinks(call.d)) = 3

Unsupported(r) == ~IsFormattedWriter(r) /\ ~IsIoWriter(r) /\ ~IsDispatcherInterface(r)
WrapFails(r) == ~IsFormattedWriter(r) /\ IsIoWriter(r) /\ r.wrapErr
Offending(r) == Unsupported(r) \/ WrapFails(r)
NoList(c) == c.receivers.isNil \/ c.receivers.elems = <<>>
FirstOffending(c) ==
  CHOOSE i \in 1..Len(c.receivers.elems) :
    /\ Offending(c.receivers.elems[i])
    /\ \A j \in 1..(i - 1) : ~Offending(c.receivers.elems[j])

\* What C10 says of one return of createDispatcher.
ConstructionError ==
  call'.op = "createDispatcher" =>
    LET c == call' IN
    /\ (c.formatter = Nil \/ NoList(c) \/ \E i \in 1..Len(c.receivers.elems) :
                                              Offending(c.receivers.elems[i]))
         => (result'.err # NilErr /\ result'.disp = <<>> /\ heap' = heap)
    /\ c.formatter = Nil => result'.err = ErrNilFormatter
    /\ (c.formatter # Nil /\ NoList(c)) => result'.err = ErrEmptyReceivers
    /\ (c.formatter # Nil /\ ~NoList(c)
        /\ \E i \in 1..Len(c.receivers.elems) : Offending(c.receivers.elems[i]))
         => LET r == c.receivers.elems[FirstOffending(c)] IN
            result'.err = IF Unsupported(r) THEN ErrUnsupportedReceiver
                                           ELSE Err("wrap", r.sink.id)

\* C10: construction errors.  createDispatcher returns an error and a nil
\* dispatcher, and adds no dispatcher to the heap, when the formatter is
\* nil, when the receiver list is nil or empty, or when some receiver, at
\* whatever position, is of no supported type or is a raw sink whose wrapping
\* fails (the error is that of the first such receiver, the receivers
\* accepted before it being dropped); a nil formatter is reported even when
\* the receiver list is empty as well.
C10_ConstructionErrors == [][ConstructionError]_vars

\* C10 witness: createDispatcher has returned the unsupported-type error and
\* no dispatcher for a list whose first two receivers, a writer and a
\* dispatcher, had been accepted before the offending third.
C10_Witness ==
  /\ call.op = "createDispatcher"
  /\ call.formatter # Nil
  /\ Len(call.receivers.elems) = 3
  /\ IsIoWriter(call.receivers.elems[1]) /\ ~call.receivers.elems[1].wrapErr
  /\ call.receivers.elems[2].kind = "Dispatcher"
  /\ Unsupported(call.receivers.elems[3])
  /\ result = [disp |-> <<>>, err |-> ErrUnsupportedReceiver]

\* The class createDispatcher puts a receiver in: writer-like when it is a
\* FormattedWriter or a raw sink, dispatcher-like when it is neither and is
\* a dispatcher.
WriterLike(r) == IsFormattedWriter(r) \/ IsIoWriter(r)
DispatcherLike(r) == ~WriterLike(r) /\ IsDispatcherInterface(r)
\* The sink a writer-like receiver brings, and the node createDispatcher
\* has just returned.
Created == heap[result.disp[1]]
Succeeded == call.op = "createDispatcher" /\ result.disp # <<>>

\* C11: construction classification.  When createDispatcher succeeds, the
\* dispatcher has exactly as many writers as the list has writer-like
\* receivers and as many children as it has dispatcher-like receivers, the
\* two numbers add up to the length of the list, and each of the two lists
\* holds the receivers of its class in the order they had in the list.
C11_Classification ==
  Succeeded =>
    LET rs == call.receivers.elems
        ws == SelectSeq(rs, WriterLike)
        ds == SelectSeq(rs, DispatcherLike)
    IN /\ result.err = NilErr
       /\ result.disp = <<Len(heap)>>
       /\ Len(Created.writers) = Len(ws)
       /\ Len(Created.dispatchers) = Len(ds)
       /\ Len(Created.writers) + Len(Created.dispatchers) = Len(rs)
       /\ \A i \in 1..Len(ws) : Writer(Created.writers[i]) = ws[i].sink
       /\ \A i \in 1..Len(ds) : Created.dispatchers[i] = ds[i].d
       /\ Created.formatter = call.formatter

\* C11 witness: createDispatcher has succeeded on a list of three receivers
\* in which a dispatcher stands between two writers.
C11_Witness ==
  /\ Succeeded
  /\ Len(call.receivers.elems) = 3
  /\ WriterLike(call.receivers.elems[1])
  /\ DispatcherLike(call.receivers.elems[2])
  /\ WriterLike(call.receivers.elems[3])

\* C12: classification priority.  A receiver is stored under the first of
\* the tests FormattedWriter, io.Writer, DispatcherInterface it passes and
\* under no other: a FormattedWriter is stored as it is, a raw sink is
\* wrapped with the dispatcher's formatter, and a receiver that is both a
\* raw sink and a dispatcher is wrapped and stored as a writer and is not
\* among the children.
C12_Priority ==
  Succeeded =>
    LET rs == call.receivers.elems IN
    \A i \in 1..Len(rs) :
      LET asWriter == {k \in 1..Len(Created.writers) :
                         Writer(Created.writers[k]) = rs[i].sink}
          asChild == {k \in 1..Len(Created.dispatchers) :
                        Created.dispatchers[k] = rs[i].d}
      IN /\ IsFormattedWriter(rs[i]) =>
              /\ Cardinality(asWriter) = 1
              /\ \A k \in asWriter : Created.writers[k] = rs[i].fw
         /\ (~IsFormattedWriter(rs[i]) /\ IsIoWriter(rs[i])) =>
              /\ Cardinality(asWriter) = 1
              /\ \A k \in asWriter : Created.writers[k].formatter = call.formatter
              /\ asChild = {}
         /\ (~IsFormattedWriter(rs[i]) /\ ~IsIoWriter(rs[i])) =>
              /\ IsDispatcherInterface(rs[i])
              /\ Cardinality(asChild) = 1
              /\ asWriter = {}

\* C12 witness: createDispatcher has succeeded on a list that holds a
\* receiver that is both a raw sink and a dispatcher, next to a dispatcher.
C12_Witness ==
  /\ Succeeded
  /\ \E i, j \in 1..Len(call.receivers.elems) :
       /\ call.receivers.elems[i].kind = "ioWriterDispatcher"
       /\ call.receivers.elems[j].kind = "Dispatcher"

\* C13: the structure is frozen after construction.  No step changes the
\* formatter, the writers list or the children list of a dispatcher that
\* exists; a call of Dispatch, Flush or Close, whether or not a write or a
\* close fails in it, leaves every dispatcher as it was; the only step that
\* changes the set of dispatchers is a successful createDispatcher, which
\* adds the one it has built.
C13_Frozen ==
  [][/\ Len(heap') >= Len(heap)
     /\ \A d \in 1..Len(heap) : heap'[d] = heap[d]
     /\ call'.op \in {"Dispatch", "Flush", "Close"} => heap' = heap
     /\ heap' # heap =>
          /\ call'.op = "createDispatcher"
          /\ result'.disp = <<Len(heap')>>
          /\ Len(heap') = Len(heap) + 1]_vars

\* C13 witness: the second call on a tree with a child was a Close in which
\* a close failed.
C13_Witness ==
  /\ calls = 2
  /\ call.op = "Close"
  /\ result.err # NilErr
  /\ heap[call.d].dispatchers # <<>>
  /\ heap[call.d].writers # <<>>

\* The positions of the trace at which sink s is written to and at which
\* node n is dispatched into.
WritesOn(s) == {i \in Idx : trace[i].op = "Write" /\ trace[i].id = s}
DispatchesInto(n) == {i \in Idx : trace[i].op = "Dispatch" /\ trace[i].id = n}
\* Event e carries the message, level and context of the root call.
SameArguments(e) ==
  /\ e.message = call.message
  /\ e.level = call.level
  /\ e.context = call.context

\* C15: no filtering and no rewriting in Dispatch.  In one Dispatch call on
\* the root, every dispatcher of the tree is dispatched into once and every
\* writer of the tree is written to once, whatever the level and the
\* context are; every write and every dispatch into a descendant carries the
\* message, the level and the context of the root call; every descendant is
\* handed the error callback of the root call, and that callback is the one
\* a failing write calls.
C15_NoFiltering ==
  call.op = "Dispatch" =>
    /\ \A n \in Subtree(call.d) : Cardinality(DispatchesInto(n)) = 1
    /\ \A s \in SubtreeIds(call.d) : Cardinality(WritesOn(s)) = 1
    /\ \A i \in Idx :
         /\ trace[i].op \in {"Write", "Dispatch"} => SameArguments(trace[i])
         /\ trace[i].op \in {"Dispatch", "errorFunc"} =>
              trace[i].errorFunc = call.errorFunc
         /\ trace[i].op = "Dispatch" => trace[i].id \in Subtree(call.d)
         /\ trace[i].op = "Write" => trace[i].id \in SubtreeIds(call.d)

\* C15 witness: a Dispatch at the lowest level on a root with a grandchild,
\* each of the three nodes with a writer, in which a write of the grandchild
\* failed.
C15_Witness ==
  /\ call.op = "Dispatch"
  /\ call.level = 0
  /\ Cardinality(Subtree(call.d)) = 3
  /\ \A n \in Subtree(call.d) : heap[n].writers # <<>>
  /\ \E c \in Range(heap[call.d].dispatchers) :
       /\ heap[c].dispatchers # <<>>
       /\ \E g \in Range(heap[c].dispatchers), i \in Idx :
            trace[i].op = "errorFunc" /\ trace[i].by = g

\* The depth of node n in the tree of root d: the number of parent-child
\* links from d down to n.
Depth(d, n) ==
  IF n = d THEN 0
  ELSE 1 + Depth(CHOOSE c \in Range(heap[d].dispatchers) : n \in Subtree(c), n)

\* C16: redundant flushes during Close.  One Close call on the root that
\* returns no error calls flush exactly d + 1 times on a flushable sink of
\* a node at depth d and never on a sink that is not flushable, calls close
\* exactly once on a closable sink, and every flush of a sink comes before
\* its close.
C16_RedundantFlushes ==
  (call.op = "Close" /\ result.err = NilErr) =>
    \A n \in Subtree(call.d) : \A s \in OwnSinks(n) :
      /\ Cardinality(At("flush", s.id)) =
           IF s.flusher THEN Depth(call.d, n) + 1 ELSE 0
      /\ Cardinality(At("close", s.id)) = IF s.closer THEN 1 ELSE 0
      /\ Before(At("flush", s.id), At("close", s.id))

\* C16 witness: a Close that returned no error on a root whose grandchild
\* has a sink that is flushable and closable, so flushed three times, and
\* whose own and whose child's sinks are flushable too.
C16_Witness ==
  /\ call.op = "Close"
  /\ result.err = NilErr
  /\ \E n \in Subtree(call.d) : \E s \in OwnSinks(n) :
       /\ Depth(call.d, n) = 2
       /\ s.flusher /\ s.closer
       /\ Cardinality(At("flush", s.id)) = 3
  /\ \A n \in Subtree(call.d) : \E s \in OwnSinks(n) : s.flusher

\* The sinks of the tree of root d that event op reaches in the trace the
\* step ends with.
ReachedNext(op, d) ==
  {s \in SubtreeSinks(d) :
     \E i \in 1..Len(trace') : trace'[i].op = op /\ trace'[i].id = s.id}

Ops(op) == {i \in Idx : trace[i].op = op}

\* C18: SyncLogger.Close swallows teardown errors.  SyncLogger.Close calls
\* Close of the root dispatcher exactly once, returns nothing and reports
\* nothing, whatever error that Close returned; SyncLogger.Flush calls Flush
\* of the root dispatcher exactly once.
C18_CloseSwallowsErrors ==
  /\ call.op = "SyncLogger.Close" =>
       /\ Cardinality(AtBy("Close", call.d, 0)) = 1
       /\ \A i \in Ops("Close") : trace[i].by = 0 => trace[i].id = call.d
       /\ Cardinality(AtBy("CloseRet", call.d, 0)) = 1
       /\ result = NoResult
       /\ Ops("reportInternalError") = {}
  /\ call.op = "SyncLogger.Flush" =>
       /\ Cardinality(AtBy("Flush", call.d, 0)) = 1
       /\ \A i \in Ops("Flush") : trace[i].by = 0 => trace[i].id = call.d
       /\ result = NoResult

\* C18 witness: a SyncLogger.Close in which the root dispatcher's Close
\* returned the close error of a sink of a child.
C18_Witness ==
  /\ call.op = "SyncLogger.Close"
  /\ \E i \in AtBy("CloseRet", call.d, 0) :
       /\ trace[i].err # NilErr
       /\ trace[i].err.src \notin OwnIds(call.d)

\* C19: SyncLogger.log is synchronous and has exactly one of two outcomes.
\* If capturing the caller's context fails, the error is reported once and
\* processLogMsg is not called; otherwise nothing is reported and
\* processLogMsg is called exactly once, with the level, format and
\* parameters of the log call and the captured context, and has returned
\* before log returns.  Nothing is returned to the caller.
C19_LogOutcomes ==
  call.op = "SyncLogger.log" =>
    /\ trace[Len(trace)].op = "logRet"
    /\ Cardinality(Ops("logRet")) = 1
    /\ result = NoResult
    /\ IF call.captured # NilErr
         THEN /\ Cardinality(Ops("reportInternalError")) = 1
              /\ \A i \in Ops("reportInternalError") : trace[i].err = call.captured
              /\ Ops("processLogMsg") = {}
              /\ Ops("Dispatch") = {}
         ELSE /\ Ops("reportInternalError") = {}
              /\ Cardinality(Ops("processLogMsg")) = 1
              /\ Cardinality(Ops("processLogMsgRet")) = 1
              /\ Before(Ops("processLogMsg"), Ops("processLogMsgRet"))
              /\ Before(Ops("processLogMsgRet"), Ops("logRet"))
              /\ \A i \in Ops("processLogMsg") :
                   /\ trace[i].level = call.level
                   /\ trace[i].message = call.message
                   /\ trace[i].params = call.params
                   /\ trace[i].context = call.context

\* C19 witness: a log call whose context capture failed, after a log call.
C19_Witness ==
  /\ calls = 2
  /\ call.op = "SyncLogger.log"
  /\ call.captured # NilErr
  /\ call.params # <<>>
  /\ Ops("reportInternalError") # {}

\* The frames form one call chain: the root's frame at the bottom, each
\* other frame an activation on a child of the node of the frame below it,
\* called by that node; a Close frame is called by a Close frame.
CallChain ==
  /\ Len(stack) <= Cardinality(Nodes)
  /\ stack # <<>> => (stack[1].d = call.d /\ stack[1].by = 0 /\ stack[1].op = call.op)
  /\ \A j \in 2..Len(stack) :
       /\ stack[j].by = stack[j - 1].d
       /\ stack[j].d \in Range(heap[stack[j - 1].d].dispatchers)
       /\ stack[j].op = "Close" => stack[j - 1].op = "Close"
       /\ stack[j].op = "Dispatch" <=> stack[j - 1].op = "Dispatch"

\* The nodes the trace enters with op and leaves with ret.
Walked(op, ret) == {n \in Nodes : At(op, n) # {} /\ At(ret, n) # {}}

\* The root call has returned: what it did is what the method does as a
\* whole, every node was visited by Dispatch and by Flush, and by Close
\* unless Close returned the first close error.
Returned ==
  (stack = <<>> /\ calls = 1) =>
    /\ call.op = "Dispatch" =>
         /\ trace = Dispatch(call.d, 0, call.message, call.level, call.context,
                             call.errorFunc, call.wfail)
         /\ Walked("Dispatch", "DispatchRet") = Subtree(call.d)
    /\ call.op = "Flush" =>
         /\ trace = Flush(call.d, 0)
         /\ Walked("Flush", "FlushRet") = Subtree(call.d)
    /\ call.op = "Close" =>
         /\ trace = Close(call.d, 0, call.cfail).ev
         /\ result.err = Close(call.d, 0, call.cfail).err
         /\ IF result.err = NilErr
              THEN Walked("Close", "CloseRet") = Subtree(call.d)
              ELSE \E i \in Idx :
                     /\ trace[i].op = "close"
                     /\ trace[i].err = result.err
                     /\ \A j \in 1..(i - 1) : trace[j].err = NilErr
                     /\ \A j \in (i + 1)..Len(trace) : trace[j].op = "CloseRet"

\* C17: termination.  On a finite tree on which every sink operation
\* returns, a Dispatch, Flush or Close call in progress returns; while it is
\* in progress it is one chain of nested calls, no deeper than the tree has
\* nodes; Dispatch and Flush return after visiting every node, Close after
\* visiting every node or at the first close error.
C17_Termination ==
  /\ []CallChain
  /\ []Returned
  /\ (stack # <<>>) ~> (stack = <<>> /\ calls = 1)

\* C17 witness: a Close on the root of a chain of three nodes has returned
\* the close error of the sink of the node in the middle.
C17_Witness ==
  /\ stack = <<>>
  /\ calls = 1
  /\ call.op = "Close"
  /\ Cardinality(Subtree(call.d)) = 3
  /\ heap[call.d].dispatchers = <<2>>
  /\ result.err = Err("close", 2)
====
